---- MODULE Spec2Model ----
(***************************************************************************)
(* Ledger & wallet transaction engine of the BenGo backend, as the source  *)
(* implements it: the wallets / ledger_entries / transactions tables, the  *)
(* payments service's P2P handler, the risk service's assessment handler   *)
(* and the double-entry utility class.                                     *)
(*                                                                         *)
(* Amounts of the P2P handler are whole naira (integers); on these         *)
(* float(Decimal) is exact. The bank-transfer and tuition handlers take    *)
(* Decimal amounts with a tail below the spacing of doubles.               *)
(***************************************************************************)
EXTENDS Integers, Sequences, FiniteSets

VARIABLES
    wallets,          \* rows of table "wallets"            (models/wallet.py)
    ledger_entries,   \* rows of table "ledger_entries"     (models/wallet.py)
    transactions,     \* rows of table "transactions"       (models/transaction.py)
    payments,         \* answered requests of the payments service, in order
    assessments,      \* answered requests of the risk service, in order
    det,              \* outcome of the latest DoubleEntryTransaction(...) call
    users,                    \* rows of table "users", by id     (models/user.py)
    verification_documents,   \* rows of "verification_documents" (models/verification.py)
    admin_audit_logs,         \* rows of "admin_audit_logs"       (api_gateway/main.py)
    issued,           \* the tokens the gateway has signed so far
    response,         \* the gateway's answer to the latest request
    now               \* datetime.utcnow(), in hours

vars == <<wallets, ledger_entries, transactions, payments, assessments, det,
          users, verification_documents, admin_audit_logs, issued, response, now>>

\* What the API gateway's own handlers read and write besides wallets.
gwVars == <<users, verification_documents, admin_audit_logs, issued, response, now>>

dbVars == <<wallets, ledger_entries, transactions>>

(***************************************************************************)
(* Bounds of the model.                                                    *)
(***************************************************************************)
MaxPayments == 2
MaxAssessments == 2
MaxEntries == 2
MaxAuditLogs == 2
MaxTime == 3

Users == {"u1", "u2"}
SeedBalances == {0, 50, 300}
PaymentAmounts == {50, 100, 300, 10000001}
PaymentCurrencies == {"NGN"}
RiskAmounts == {100, 1000000, 1000001, 2000000}
RiskTransactionTypes == {"P2P", "BANK_TRANSFER"}
\* Decimal amounts as [whole, tail]: the value whole + tail * 10^-17.
DecimalAmounts ==
    {[whole |-> 50, tail |-> 0], [whole |-> 100, tail |-> -1],
     [whole |-> 100, tail |-> 0], [whole |-> 10000000, tail |-> 0],
     [whole |-> 10000000, tail |-> 1], [whole |-> 10000001, tail |-> 0]}
Digits == {"0", "1", "2", "3", "4", "5", "6", "7", "8", "9"}
\* Account numbers as sequences of characters.
BankAccountNumbers ==
    {<<"0", "1", "2", "3", "4", "5", "6", "7", "8", "9">>,
     <<"0", "1", "2", "3", "4", "5", "6", "7", "8">>,
     <<"0", "1", "2", "3", "4", "5", "6", "7", "8", "9", "0">>,
     <<"0", "1", "2", "3", "4", "5", "6", "7", "8", "x">>,
     <<>>}
LedgerAccounts == {"w1", "w2", "w9"}   \* w9 is no row of wallets
LedgerCurrencies == {"NGN", "USD"}
LedgerAmounts == {-100, 0, 100, 200}

(***************************************************************************)
(* Program constants.                                                      *)
(***************************************************************************)
min_transaction_amount == 100
max_transaction_amount == 10000000
LargeAmountThreshold == 1000000
LargeAmountScore == 30

NoValue == "NONE"

\* The gateway's allowlist of admin emails.
AdminEmails == {"admin@bengo.com", "emzzygee000@gmail.com"}

\* Hours a password reset token stays valid.
ResetTokenHours == 1

\* No DoubleEntryTransaction(...) call has been made yet.
NoTransaction == [outcome |-> "none", transaction_id |-> NoValue, entries |-> <<>>]

(***************************************************************************)
(* Database rows.                                                          *)
(***************************************************************************)
WalletRow(id, user_id, balance) ==
    [id |-> id, user_id |-> user_id, currency |-> "NGN",
     balance |-> balance, pending_balance |-> 0, status |-> "ACTIVE"]

RECURSIVE SumSeq(_)
SumSeq(s) == IF s = <<>> THEN 0 ELSE Head(s) + SumSeq(Tail(s))

RECURSIVE SelectAmounts(_, _, _)
\* balance + pending_balance of the rows of tbl in currency c, as a sequence
SelectAmounts(tbl, c, k) ==
    IF k > Len(tbl) THEN <<>>
    ELSE (IF tbl[k].currency = c
          THEN <<tbl[k].balance + tbl[k].pending_balance>>
          ELSE <<>>) \o SelectAmounts(tbl, c, k + 1)

TotalMoney(tbl, c) == SumSeq(SelectAmounts(tbl, c, 1))

HasWallet(tbl, u, c) ==
    \E k \in 1..Len(tbl) : tbl[k].user_id = u /\ tbl[k].currency = c

WalletIndex(tbl, u, c) ==
    CHOOSE k \in 1..Len(tbl) : tbl[k].user_id = u /\ tbl[k].currency = c

Available(tbl, u, c) == tbl[WalletIndex(tbl, u, c)].balance

(***************************************************************************)
(* shared/utils/validation.py                                              *)
(***************************************************************************)
validate_amount(amount) ==
    IF amount < min_transaction_amount
    THEN [ok |-> FALSE, error |-> "Amount must be at least"]
    ELSE IF amount > max_transaction_amount
    THEN [ok |-> FALSE, error |-> "Amount cannot exceed"]
    ELSE [ok |-> TRUE, error |-> NoValue]

(***************************************************************************)
(* services/payments/main.py                                               *)
(***************************************************************************)
PaymentStatus == {"PENDING", "PROCESSING", "COMPLETED", "FAILED", "CANCELLED"}

HttpError(code, detail) ==
    [http |-> code, detail |-> detail, payment_id |-> NoValue,
     status |-> NoValue, amount |-> 0, currency |-> NoValue,
     fee |-> 0, net_amount |-> 0]

PaymentResponse(payment_id, status, amount, currency, fee, net_amount) ==
    [http |-> 200, detail |-> NoValue, payment_id |-> payment_id,
     status |-> status, amount |-> amount, currency |-> currency,
     fee |-> fee, net_amount |-> net_amount]

\* What p2p_transfer answers: a 400 when validate_amount refuses the amount,
\* otherwise the placeholder response with status PROCESSING and fee 0.
P2PResponse(amount, currency) ==
    LET v == validate_amount(amount)
        fee == 0
    IN  IF ~v.ok
        THEN HttpError(400, v.error)
        ELSE PaymentResponse("payment_id_placeholder", "PROCESSING",
                             amount, currency, fee, amount - fee)

\* One answered request, with the wallets table as it stood before and after.
PaymentRecord(op, user_id, recipient_id, amount, currency, resp, before, after) ==
    [op |-> op, user_id |-> user_id, recipient_id |-> recipient_id,
     amount |-> amount, currency |-> currency, response |-> resp,
     before |-> before, after |-> after]

\* Variant of p2p_transfer that takes the amount from the sender's wallet
\* without the balance check.
DebitRow(row, amount) == [row EXCEPT !.balance = @ - amount]

p2p_transfer_DeductsUnchecked(user_id, recipient_id, amount, currency) ==
    /\ Len(payments) < MaxPayments
    /\ wallets' = IF validate_amount(amount).ok /\ HasWallet(wallets, user_id, currency)
                  THEN [wallets EXCEPT ![WalletIndex(wallets, user_id, currency)] =
                            DebitRow(@, amount)]
                  ELSE wallets
    /\ UNCHANGED <<ledger_entries, transactions>>
    /\ payments' = Append(payments,
           PaymentRecord("P2P", user_id, recipient_id, amount, currency,
                         P2PResponse(amount, currency), wallets, wallets'))
    /\ UNCHANGED <<assessments, det>>
    /\ UNCHANGED gwVars

\* Variant of p2p_transfer that numbers its payments instead of answering the
\* placeholder id.
FreshPaymentId(n) == IF n = 0 THEN "payment_1" ELSE IF n = 1 THEN "payment_2"
                     ELSE IF n = 2 THEN "payment_3" ELSE "payment_n"

p2p_transfer_FreshId(user_id, recipient_id, amount, currency) ==
    /\ Len(payments) < MaxPayments
    /\ UNCHANGED dbVars
    /\ payments' = Append(payments,
           PaymentRecord("P2P", user_id, recipient_id, amount, currency,
                         [P2PResponse(amount, currency) EXCEPT
                              !.payment_id = IF @ = NoValue THEN @
                                             ELSE FreshPaymentId(Len(payments))],
                         wallets, wallets'))
    /\ UNCHANGED <<assessments, det>>
    /\ UNCHANGED gwVars

\* p2p_transfer: validates the amount and answers; the balance check, the
\* wallet updates, the ledger entries and the transaction record are TODOs,
\* so no table is written.
p2p_transfer(user_id, recipient_id, amount, currency) ==
    /\ Len(payments) < MaxPayments
    /\ UNCHANGED dbVars
    /\ payments' = Append(payments,
           PaymentRecord("P2P", user_id, recipient_id, amount, currency,
                         P2PResponse(amount, currency), wallets, wallets'))
    /\ UNCHANGED <<assessments, det>>
    /\ UNCHANGED gwVars

\* float(Decimal): the nearest double. Doubles from 1 upwards are spaced
\* more than 2 * 10^-16 apart, so a tail of 10^-17 is rounded away.
float(d) == d.whole

\* str.isdigit(): at least one character and every character a digit.
isdigit(str) == str # <<>> /\ \A k \in 1..Len(str) : str[k] \in Digits

validate_nigerian_bank_account(account_number) ==
    isdigit(account_number) /\ Len(account_number) = 10

\* What bank_transfer answers: a 400 when validate_amount refuses the float of
\* the amount, a 400 when the account number is refused, otherwise the
\* placeholder response with status PROCESSING and fee 50. The response
\* echoes the Decimal amount of the request.
BankTransferResponse(account_number, amount, currency) ==
    LET v == validate_amount(float(amount))
        fee == 50
    IN  IF ~v.ok
        THEN HttpError(400, v.error)
        ELSE IF ~validate_nigerian_bank_account(account_number)
        THEN HttpError(400, "Invalid bank account number")
        ELSE PaymentResponse("payment_id_placeholder", "PROCESSING",
                             amount, currency, fee,
                             [amount EXCEPT !.whole = @ - fee])

\* What pay_tuition answers: as p2p_transfer, on a Decimal amount.
TuitionResponse(amount, currency) ==
    LET v == validate_amount(float(amount))
        fee == 0
    IN  IF ~v.ok
        THEN HttpError(400, v.error)
        ELSE PaymentResponse("payment_id_placeholder", "PROCESSING",
                             amount, currency, fee,
                             [amount EXCEPT !.whole = @ - fee])

\* bank_transfer: validates amount and account number and answers; every
\* later step is a TODO, so no table is written.
bank_transfer(user_id, account_number, amount, currency) ==
    /\ Len(payments) < MaxPayments
    /\ UNCHANGED dbVars
    /\ payments' = Append(payments,
           [op |-> "BANK_TRANSFER", user_id |-> user_id,
            account_number |-> account_number, amount |-> amount,
            currency |-> currency,
            response |-> BankTransferResponse(account_number, amount, currency),
            before |-> dbVars, after |-> dbVars'])
    /\ UNCHANGED <<assessments, det>>
    /\ UNCHANGED gwVars

\* pay_tuition: validates the amount and answers; no table is written.
pay_tuition(user_id, institution_id, amount, currency) ==
    /\ Len(payments) < MaxPayments
    /\ UNCHANGED dbVars
    /\ payments' = Append(payments,
           [op |-> "TUITION", user_id |-> user_id,
            institution_id |-> institution_id, amount |-> amount,
            currency |-> currency,
            response |-> TuitionResponse(amount, currency),
            before |-> dbVars, after |-> dbVars'])
    /\ UNCHANGED <<assessments, det>>
    /\ UNCHANGED gwVars

(***************************************************************************)
(* services/risk/main.py                                                   *)
(***************************************************************************)
RiskLevel == {"LOW", "MEDIUM", "HIGH", "CRITICAL"}

\* Variant of the score whose large-amount comparison is inclusive.
RiskScore_InclusiveThreshold(amount) ==
    0 + (IF amount >= LargeAmountThreshold THEN LargeAmountScore ELSE 0)

\* The score assess_transaction_risk computes: 0.0, plus 30 for an amount
\* above 1,000,000. The other checks are TODOs.
RiskScore(amount) ==
    0 + (IF amount > LargeAmountThreshold THEN LargeAmountScore ELSE 0)

RiskReasons(amount) ==
    IF amount > LargeAmountThreshold THEN <<"Large transaction amount">> ELSE <<>>

\* Variant of the band chain whose first comparison is inclusive.
RiskDecision_InclusiveLowBand(risk_score) ==
    IF risk_score <= 30
    THEN [risk_level |-> "LOW", approved |-> TRUE, requires_verification |-> FALSE]
    ELSE IF risk_score < 60
    THEN [risk_level |-> "MEDIUM", approved |-> TRUE, requires_verification |-> TRUE]
    ELSE IF risk_score < 80
    THEN [risk_level |-> "HIGH", approved |-> FALSE, requires_verification |-> TRUE]
    ELSE [risk_level |-> "CRITICAL", approved |-> FALSE, requires_verification |-> TRUE]

\* The if / elif chain from score to level, approval and verification flag;
\* requires_verification starts False and the LOW branch leaves it.
RiskDecision(risk_score) ==
    IF risk_score < 30
    THEN [risk_level |-> "LOW", approved |-> TRUE, requires_verification |-> FALSE]
    ELSE IF risk_score < 60
    THEN [risk_level |-> "MEDIUM", approved |-> TRUE, requires_verification |-> TRUE]
    ELSE IF risk_score < 80
    THEN [risk_level |-> "HIGH", approved |-> FALSE, requires_verification |-> TRUE]
    ELSE [risk_level |-> "CRITICAL", approved |-> FALSE, requires_verification |-> TRUE]

RiskAssessmentResponse(risk_score, decision, reasons) ==
    [risk_score |-> risk_score, risk_level |-> decision.risk_level,
     approved |-> decision.approved, reasons |-> reasons,
     requires_verification |-> decision.requires_verification]

\* assess_transaction_risk: computes the response from the request alone and
\* writes no table.
assess_transaction_risk(user_id, transaction_type, amount) ==
    /\ Len(assessments) < MaxAssessments
    /\ assessments' = Append(assessments,
           [user_id |-> user_id, transaction_type |-> transaction_type,
            amount |-> amount,
            response |-> RiskAssessmentResponse(RiskScore(amount),
                             RiskDecision(RiskScore(amount)), RiskReasons(amount))])
    /\ UNCHANGED dbVars
    /\ UNCHANGED <<payments, det>>
    /\ UNCHANGED gwVars

(***************************************************************************)
(* shared/utils/ledger.py                                                  *)
(***************************************************************************)
TransactionType == {"DEBIT", "CREDIT"}

LedgerEntry(account_id, transaction_type, amount, currency) ==
    [account_id |-> account_id, transaction_type |-> transaction_type,
     amount |-> amount, currency |-> currency]

LedgerEntries ==
    {LedgerEntry(a, t, m, c) : a \in LedgerAccounts, t \in TransactionType,
                               m \in LedgerAmounts, c \in LedgerCurrencies}

EntryLists == UNION {[1..n -> LedgerEntries] : n \in 0..MaxEntries}

RECURSIVE SumOfType(_, _)
\* sum(entry.amount for entry in entries if entry.transaction_type == t)
SumOfType(entries, t) ==
    IF entries = <<>> THEN 0
    ELSE (IF Head(entries).transaction_type = t THEN Head(entries).amount ELSE 0)
         + SumOfType(Tail(entries), t)

\* _validate_balance: TRUE when it returns, FALSE when it raises ValueError.
\* The two sums run over all entries, whatever their currency.
validate_balance(entries) ==
    LET total_debits == SumOfType(entries, "DEBIT")
        total_credits == SumOfType(entries, "CREDIT")
    IN  total_debits = total_credits

\* DoubleEntryTransaction(transaction_id, entries): the object, or ValueError.
DoubleEntryTransaction(transaction_id, entries) ==
    /\ det' = IF validate_balance(entries)
              THEN [outcome |-> "constructed", transaction_id |-> transaction_id,
                    entries |-> entries]
              ELSE [outcome |-> "ValueError", transaction_id |-> transaction_id,
                    entries |-> entries]
    /\ UNCHANGED dbVars
    /\ UNCHANGED <<payments, assessments>>
    /\ UNCHANGED gwVars

(***************************************************************************)
(* shared/models/user.py, shared/models/verification.py,                   *)
(* shared/utils/security.py                                                *)
(***************************************************************************)
UserIds == {"u1", "u2", "u3"}
Emails == {"admin@bengo.com", "ann@mail.com", "bob@mail.com"}
RegisterEmails == {"ann@mail.com", "bob@mail.com"}
Phones == {"08011111111", "12345", "123"}
\* validate_nigerian_phone: the phones matching ^(\+234|0)[789][01]\d{8}$.
NigerianPhones == {"08011111111"}
\* The phones p with len(p.strip()) < 5.
ShortPhones == {"123"}
CountryCodes == {"NG", "IR"}
\* settings.sanctioned_regions_list
sanctioned_regions_list == {"IR", "KR", "CU", "SY"}
Passwords == {"pw1", "pw2"}
GoogleIds == {"g1", "g2"}
DocumentIds == {"d1", "d2"}

NoTime == -1     \* a DateTime column holding NULL
NoHash == <<>>   \* password_hash NULL

KYCStatus == {"PENDING", "IN_PROGRESS", "VERIFIED", "REJECTED"}

\* The enum, member name to value. It has no member APPROVED.
VerificationStatus ==
    [NOT_STARTED |-> "not_started", PENDING |-> "pending",
     VERIFIED |-> "verified", REJECTED |-> "rejected"]

\* bcrypt: the hash determines the password, and is not the password.
get_password_hash(password) == <<"bcrypt", password>>

verify_password(plain_password, hashed_password) ==
    hashed_password = get_password_hash(plain_password)

\* A signed JWT, by its payload.
create_access_token(sub) == [sub |-> sub, type |-> "access"]

create_refresh_token(sub) == [sub |-> sub, type |-> "refresh"]

\* A string that is no JWT signed by this gateway, or one that has expired.
GarbageToken == [sub |-> NoValue, type |-> "garbage"]

\* decode_token: the payload, or None for a token jwt.decode refuses.
decode_token(token) ==
    IF token.type \notin {"access", "refresh"}
    THEN [none |-> TRUE, sub |-> NoValue, type |-> NoValue]
    ELSE [none |-> FALSE, sub |-> token.sub, type |-> token.type]

\* A row of users; exists = FALSE stands for "no row with this id".
NoUser ==
    [exists |-> FALSE, email |-> NoValue, phone |-> NoValue,
     password_hash |-> NoHash, kyc_status |-> NoValue, is_active |-> FALSE,
     is_verified |-> FALSE, last_login |-> NoTime, google_id |-> NoValue,
     oauth_provider |-> NoValue, reset_token |-> NoValue,
     reset_token_expires |-> NoTime]

\* User(...) as register builds it: column defaults for everything else.
User(email, phone, password_hash, google_id, oauth_provider, is_verified) ==
    [exists |-> TRUE, email |-> email, phone |-> phone,
     password_hash |-> password_hash, kyc_status |-> "PENDING",
     is_active |-> TRUE, is_verified |-> is_verified, last_login |-> NoTime,
     google_id |-> google_id, oauth_provider |-> oauth_provider,
     reset_token |-> NoValue, reset_token_expires |-> NoTime]

VerificationDocument(id, user_id, status) ==
    [id |-> id, user_id |-> user_id, status |-> status,
     reviewed_at |-> NoTime, reviewed_by |-> NoValue, rejection_reason |-> NoValue]

AdminAuditLog(admin_id, admin_email, action, target_type, target_id) ==
    [admin_id |-> admin_id, admin_email |-> admin_email, action |-> action,
     target_type |-> target_type, target_id |-> target_id]

\* db.query(User).filter(cond).first(): the id of a matching row, or NoValue.
ExistingIds == {id \in UserIds : users[id].exists}

FirstUser(matching) ==
    IF matching = {} THEN NoValue ELSE CHOOSE id \in matching : TRUE

UserByEmail(email) == FirstUser({id \in ExistingIds : users[id].email = email})

UserById(user_id) == FirstUser({id \in ExistingIds : id = user_id})

\* default=generate_numeric_id: an id no row holds yet. The ids are random
\* and nothing depends on their value, so the pool is handed out in order.
IdOrder == <<"u1", "u2", "u3">>
WalletIdOrder == <<"w1", "w2", "w3">>

FirstFree(order, used) ==
    LET free == {k \in 1..Len(order) : order[k] \notin used}
    IN  IF free = {} THEN {}
        ELSE {order[CHOOSE k \in free : \A j \in free : k <= j]}

FreeIds == FirstFree(IdOrder, ExistingIds)

FreeWalletIds == FirstFree(WalletIdOrder, {wallets[k].id : k \in 1..Len(wallets)})

\* The gateway's answer: the handler, the status code and the body's message.
NoToken == [sub |-> NoValue, type |-> "none"]

NoResponse ==
    [op |-> "none", code |-> 0, detail |-> NoValue, token |-> NoToken,
     caller |-> NoValue, target |-> NoValue,
     access_token |-> NoToken, refresh_token |-> NoToken]

\* An answer without tokens: HTTPException(code, detail) or a 200 message.
\* caller is the user the handler acted for, target the path argument.
Answer(op, code, detail, caller, target) ==
    [NoResponse EXCEPT !.op = op, !.code = code, !.detail = detail,
                       !.caller = caller, !.target = target]

\* The answer to a request that carried a bearer token.
AnswerTo(token, op, code, detail, caller, target) ==
    [Answer(op, code, detail, caller, target) EXCEPT !.token = token]

TokenResponse(op, caller, access_token, refresh_token) ==
    [NoResponse EXCEPT !.op = op, !.code = 200, !.caller = caller,
                       !.access_token = access_token,
                       !.refresh_token = refresh_token]

\* No user, document or audit record exists and no request was answered.
GatewayEmpty ==
    /\ users = [id \in UserIds |-> NoUser]
    /\ verification_documents = <<>>
    /\ admin_audit_logs = <<>>
    /\ issued = {}
    /\ response = NoResponse
    /\ now = 0

(***************************************************************************)
(* api_gateway/main.py and services/auth/main.py: registration             *)
(***************************************************************************)
validate_nigerian_phone(phone) == phone \in NigerianPhones

validate_region(region_code) == region_code \notin sanctioned_regions_list

\* Wallet(user_id, currency="NGN", balance=0.00, pending_balance=0.00)
DefaultWallet(id, user_id) == WalletRow(id, user_id, 0)

\* The rows of wallets a user owns in a currency.
WalletsOf(tbl, user_id, currency) ==
    {k \in 1..Len(tbl) : tbl[k].user_id = user_id /\ tbl[k].currency = currency}

\* register of the gateway. The user row and the wallet row are committed one
\* after the other; wallet_commit is whether the second commit succeeds. When
\* it raises, the handler rolls the wallet back and answers 500, the user row
\* being committed already.
register(email, password, phone, country_code, wallet_commit) ==
    /\ \/ /\ phone \in ShortPhones
          /\ response' = Answer("register", 400, "Phone number is required", NoValue, NoValue)
          /\ UNCHANGED <<users, wallets>>
       \/ /\ phone \notin ShortPhones
          /\ ~validate_region(country_code)
          /\ response' = Answer("register", 403, "Service not available", NoValue, NoValue)
          /\ UNCHANGED <<users, wallets>>
       \/ /\ phone \notin ShortPhones
          /\ validate_region(country_code)
          /\ \E id \in ExistingIds : users[id].email = email \/ users[id].phone = phone
          /\ response' = Answer("register", 400, "User with this email or phone already exists", NoValue, NoValue)
          /\ UNCHANGED <<users, wallets>>
       \/ /\ phone \notin ShortPhones
          /\ validate_region(country_code)
          /\ ~\E id \in ExistingIds : users[id].email = email \/ users[id].phone = phone
          /\ \E id \in FreeIds, wid \in FreeWalletIds :
                /\ users' = [users EXCEPT ![id] =
                       User(email, phone, get_password_hash(password),
                            NoValue, NoValue, FALSE)]
                /\ IF wallet_commit
                   THEN /\ wallets' = Append(wallets, DefaultWallet(wid, id))
                        /\ response' = Answer("register", 200, NoValue, id, NoValue)
                   ELSE /\ wallets' = wallets
                        /\ response' = Answer("register", 500, "Registration failed", id, NoValue)
    /\ UNCHANGED <<ledger_entries, transactions, payments, assessments, det>>
    /\ UNCHANGED <<verification_documents, admin_audit_logs, issued, now>>

\* register of the auth service: the same checks with the strict phone format,
\* then the user row alone; no wallet is created. user_commit is whether the
\* database takes the row, whose id is a 36-character uuid in a String(20)
\* column; when it does not, the exception leaves the handler (500).
auth_register(email, password, phone, country_code, user_commit) ==
    /\ \/ /\ ~validate_nigerian_phone(phone)
          /\ response' = Answer("auth_register", 400, "Invalid Nigerian phone number format", NoValue, NoValue)
          /\ UNCHANGED users
       \/ /\ validate_nigerian_phone(phone)
          /\ ~validate_region(country_code)
          /\ response' = Answer("auth_register", 403, "Service not available", NoValue, NoValue)
          /\ UNCHANGED users
       \/ /\ validate_nigerian_phone(phone)
          /\ validate_region(country_code)
          /\ \E id \in ExistingIds : users[id].email = email \/ users[id].phone = phone
          /\ response' = Answer("auth_register", 400, "User with this email or phone already exists", NoValue, NoValue)
          /\ UNCHANGED users
       \/ /\ validate_nigerian_phone(phone)
          /\ validate_region(country_code)
          /\ ~\E id \in ExistingIds : users[id].email = email \/ users[id].phone = phone
          /\ IF user_commit
             THEN \E id \in FreeIds :
                    /\ users' = [users EXCEPT ![id] =
                           User(email, phone, get_password_hash(password),
                                NoValue, NoValue, FALSE)]
                    /\ response' = Answer("auth_register", 200, NoValue, id, NoValue)
             ELSE /\ response' = Answer("auth_register", 500, "Internal Server Error", NoValue, NoValue)
                  /\ UNCHANGED users
    /\ UNCHANGED <<wallets, ledger_entries, transactions, payments, assessments, det>>
    /\ UNCHANGED <<verification_documents, admin_audit_logs, issued, now>>

(***************************************************************************)
(* api_gateway/main.py: sign-in and tokens                                 *)
(***************************************************************************)
\* What Google's tokeninfo endpoint answers for an id_token.
GoogleAnswers ==
    {[status |-> 200, sub |-> g, email |-> e] : g \in GoogleIds, e \in Emails}
        \cup {[status |-> 400, sub |-> NoValue, email |-> NoValue]}

\* The two tokens a sign-in answers with.
TokensFor(user_id) == {create_access_token(user_id), create_refresh_token(user_id)}

\* login: 401 for an unknown email or a wrong password, 403 for an inactive
\* user; otherwise last_login is stored and both tokens are issued.
login(email, password) ==
    LET id == UserByEmail(email) IN
    /\ IF id = NoValue
       THEN /\ response' = Answer("login", 401, "Invalid email or password", NoValue, NoValue)
            /\ UNCHANGED <<users, issued>>
       ELSE IF ~verify_password(password, users[id].password_hash)
       THEN /\ response' = Answer("login", 401, "Invalid email or password", NoValue, NoValue)
            /\ UNCHANGED <<users, issued>>
       ELSE IF ~users[id].is_active
       THEN /\ response' = Answer("login", 403, "User account is inactive", id, NoValue)
            /\ UNCHANGED <<users, issued>>
       ELSE /\ users' = [users EXCEPT ![id].last_login = now]
            /\ issued' = issued \cup TokensFor(id)
            /\ response' = TokenResponse("login", id, create_access_token(id),
                                         create_refresh_token(id))
    /\ UNCHANGED <<wallets, ledger_entries, transactions, payments, assessments, det>>
    /\ UNCHANGED <<verification_documents, admin_audit_logs, now>>

\* refresh_token: 401 unless the token decodes with type "refresh"; then new
\* tokens for the token's sub. No table is read.
refresh_token(token) ==
    LET payload == decode_token(token) IN
    /\ IF payload.none \/ payload.type # "refresh"
       THEN /\ response' = AnswerTo(token, "refresh_token", 401, "Invalid refresh token", NoValue, NoValue)
            /\ UNCHANGED issued
       ELSE /\ issued' = issued \cup TokensFor(payload.sub)
            /\ response' = [TokenResponse("refresh_token", payload.sub,
                                          create_access_token(payload.sub),
                                          create_refresh_token(payload.sub))
                                EXCEPT !.token = token]
    /\ UNCHANGED <<wallets, ledger_entries, transactions, payments, assessments, det>>
    /\ UNCHANGED <<users, verification_documents, admin_audit_logs, now>>

\* google_oauth: a token Google refuses raises HTTPException(401) inside the
\* try, which the handler's "except Exception" turns into a 500. A known
\* user (by google id or email; first() of the matching rows) gets the google
\* id stored if none was, and last_login; an unknown one is created with a
\* wallet as in register. Both end with new tokens; is_active is not read.
google_oauth(google_user, wallet_commit) ==
    LET matching == {id \in ExistingIds : \/ users[id].google_id = google_user.sub
                                          \/ users[id].email = google_user.email}
    IN
    /\ \/ /\ google_user.status # 200
          /\ response' = Answer("google_oauth", 500, "OAuth authentication failed", NoValue, NoValue)
          /\ UNCHANGED <<users, wallets, issued>>
       \/ /\ google_user.status = 200
          /\ \E id \in matching :
                /\ users' = [users EXCEPT ![id] =
                       [(IF @.google_id = NoValue
                         THEN [@ EXCEPT !.google_id = google_user.sub,
                                        !.oauth_provider = "google"]
                         ELSE @) EXCEPT !.last_login = now]]
                /\ issued' = issued \cup TokensFor(id)
                /\ response' = TokenResponse("google_oauth", id,
                                   create_access_token(id), create_refresh_token(id))
                /\ UNCHANGED wallets
       \/ /\ google_user.status = 200
          /\ matching = {}
          /\ \E id \in FreeIds, wid \in FreeWalletIds :
                /\ users' = [users EXCEPT ![id] =
                       User(google_user.email, NoValue, NoHash,
                            google_user.sub, "google", TRUE)]
                /\ IF wallet_commit
                   THEN /\ wallets' = Append(wallets, DefaultWallet(wid, id))
                        /\ issued' = issued \cup TokensFor(id)
                        /\ response' = TokenResponse("google_oauth", id,
                               create_access_token(id), create_refresh_token(id))
                   ELSE /\ wallets' = wallets
                        /\ issued' = issued
                        /\ response' = Answer("google_oauth", 500, "OAuth authentication failed", id, NoValue)
    /\ UNCHANGED <<ledger_entries, transactions, payments, assessments, det>>
    /\ UNCHANGED <<verification_documents, admin_audit_logs, now>>

\* get_current_user_id: the token's sub, or 401 for a token that does not
\* decode, is not of type "access" or carries no sub.
get_current_user_id(token) ==
    LET payload == decode_token(token) IN
    IF payload.none \/ payload.type # "access" \/ payload.sub = NoValue
    THEN [code |-> 401, user_id |-> NoValue]
    ELSE [code |-> 200, user_id |-> payload.sub]

(***************************************************************************)
(* api_gateway/main.py: account settings                                   *)
(***************************************************************************)
\* What change_password, update_email and update_phone do before their
\* update: decode the token (any type), load the user of its sub, and verify
\* the password. code 200 means the update goes ahead.
SettingsGate(token, password) ==
    LET payload == decode_token(token)
        id == IF payload.none THEN NoValue ELSE UserById(payload.sub)
    IN  IF payload.none
        THEN [code |-> 401, detail |-> "Invalid token", user_id |-> NoValue]
        ELSE IF id = NoValue \/ users[id].password_hash = NoHash
        THEN [code |-> 404, detail |-> "User not found or OAuth user", user_id |-> NoValue]
        ELSE IF ~verify_password(password, users[id].password_hash)
        THEN [code |-> 401, detail |-> "Password is incorrect", user_id |-> id]
        ELSE [code |-> 200, detail |-> NoValue, user_id |-> id]

change_password(token, current_password, new_password) ==
    LET gate == SettingsGate(token, current_password) IN
    /\ IF gate.code # 200
       THEN /\ response' = AnswerTo(token, "change_password", gate.code, gate.detail, gate.user_id, NoValue)
            /\ UNCHANGED users
       ELSE /\ users' = [users EXCEPT ![gate.user_id].password_hash =
                                          get_password_hash(new_password)]
            /\ response' = AnswerTo(token, "change_password", 200, "Password changed successfully", gate.user_id, NoValue)
    /\ UNCHANGED <<wallets, ledger_entries, transactions, payments, assessments, det>>
    /\ UNCHANGED <<verification_documents, admin_audit_logs, issued, now>>

\* update_email: refuses an email another user holds; otherwise stores it and
\* clears is_verified.
update_email(token, email, password) ==
    LET gate == SettingsGate(token, password)
        existing_user == UserByEmail(email)
    IN
    /\ IF gate.code # 200
       THEN /\ response' = AnswerTo(token, "update_email", gate.code, gate.detail, gate.user_id, NoValue)
            /\ UNCHANGED users
       ELSE IF existing_user # NoValue /\ existing_user # gate.user_id
       THEN /\ response' = AnswerTo(token, "update_email", 400, "Email already in use", gate.user_id, NoValue)
            /\ UNCHANGED users
       ELSE /\ users' = [users EXCEPT ![gate.user_id].email = email,
                                      ![gate.user_id].is_verified = FALSE]
            /\ response' = AnswerTo(token, "update_email", 200, "Email updated successfully", gate.user_id, NoValue)
    /\ UNCHANGED <<wallets, ledger_entries, transactions, payments, assessments, det>>
    /\ UNCHANGED <<verification_documents, admin_audit_logs, issued, now>>

update_phone(token, phone, password) ==
    LET gate == SettingsGate(token, password)
        existing_user == FirstUser({id \in ExistingIds : users[id].phone = phone})
    IN
    /\ IF gate.code # 200
       THEN /\ response' = AnswerTo(token, "update_phone", gate.code, gate.detail, gate.user_id, NoValue)
            /\ UNCHANGED users
       ELSE IF existing_user # NoValue /\ existing_user # gate.user_id
       THEN /\ response' = AnswerTo(token, "update_phone", 400, "Phone number already in use", gate.user_id, NoValue)
            /\ UNCHANGED users
       ELSE /\ users' = [users EXCEPT ![gate.user_id].phone = phone]
            /\ response' = AnswerTo(token, "update_phone", 200, "Phone number updated successfully", gate.user_id, NoValue)
    /\ UNCHANGED <<wallets, ledger_entries, transactions, payments, assessments, det>>
    /\ UNCHANGED <<verification_documents, admin_audit_logs, issued, now>>

(***************************************************************************)
(* api_gateway/main.py: verification and admin handlers                    *)
(***************************************************************************)
DocIdOrder == <<"d1", "d2">>

FreeDocumentIds ==
    FirstFree(DocIdOrder, {verification_documents[k].id :
                               k \in 1..Len(verification_documents)})

\* The rows of verification_documents of one user / with one id.
DocumentsOf(tbl, user_id) == {k \in 1..Len(tbl) : tbl[k].user_id = user_id}

DocumentById(tbl, document_id) == {k \in 1..Len(tbl) : tbl[k].id = document_id}

\* get_current_user (GET /auth/me): reads the user of an access token.
get_current_user(token) ==
    LET payload == decode_token(token) IN
    /\ response' =
           IF payload.none \/ payload.type # "access"
           THEN AnswerTo(token, "get_current_user", 401, "Invalid access token", NoValue, NoValue)
           ELSE IF UserById(payload.sub) = NoValue
           THEN AnswerTo(token, "get_current_user", 404, "User not found", NoValue, NoValue)
           ELSE AnswerTo(token, "get_current_user", 200, NoValue, payload.sub, NoValue)
    /\ UNCHANGED <<wallets, ledger_entries, transactions, payments, assessments, det>>
    /\ UNCHANGED <<users, verification_documents, admin_audit_logs, issued, now>>

\* submit_verification with one document in the request (has_document) or
\* with an empty list: stores the document as pending and sets the user's
\* kyc_status to PENDING.
submit_verification(token, has_document) ==
    LET current == get_current_user_id(token)
        id == IF current.code = 200 THEN UserById(current.user_id) ELSE NoValue
    IN
    /\ IF current.code # 200
       THEN /\ response' = AnswerTo(token, "submit_verification", 401, "Invalid access token", NoValue, NoValue)
            /\ UNCHANGED <<users, verification_documents>>
       ELSE IF id = NoValue
       THEN /\ response' = AnswerTo(token, "submit_verification", 404, "User not found", NoValue, NoValue)
            /\ UNCHANGED <<users, verification_documents>>
       ELSE IF users[id].kyc_status = "VERIFIED"
       THEN /\ response' = AnswerTo(token, "submit_verification", 400, "Account is already verified", id, NoValue)
            /\ UNCHANGED <<users, verification_documents>>
       ELSE IF ~has_document
       THEN /\ response' = AnswerTo(token, "submit_verification", 400, "At least one document is required", id, NoValue)
            /\ UNCHANGED <<users, verification_documents>>
       ELSE \E d \in FreeDocumentIds :
            /\ verification_documents' = Append(verification_documents,
                   VerificationDocument(d, id, VerificationStatus.PENDING))
            /\ users' = [users EXCEPT ![id].kyc_status = "PENDING"]
            /\ response' = AnswerTo(token, "submit_verification", 200, "Verification documents submitted successfully", id, d)
    /\ UNCHANGED <<wallets, ledger_entries, transactions, payments, assessments, det>>
    /\ UNCHANGED <<admin_audit_logs, issued, now>>

\* The opening of every admin handler: the caller of an access token, who
\* must exist and whose email must be in the allowlist.
AdminGate(token) ==
    LET current == get_current_user_id(token)
        id == IF current.code = 200 THEN UserById(current.user_id) ELSE NoValue
    IN  IF current.code # 200
        THEN [code |-> 401, detail |-> "Invalid access token", user_id |-> NoValue]
        ELSE IF id = NoValue
        THEN [code |-> 404, detail |-> "Current user not found", user_id |-> NoValue]
        ELSE IF users[id].email \notin AdminEmails
        THEN [code |-> 403, detail |-> "Access denied. Admin only.", user_id |-> id]
        ELSE [code |-> 200, detail |-> NoValue, user_id |-> id]

\* get_all_users, as the admin listings go: the gate, then a read.
get_all_users(token) ==
    LET gate == AdminGate(token) IN
    /\ response' = AnswerTo(token, "get_all_users", gate.code, gate.detail, gate.user_id, NoValue)
    /\ UNCHANGED <<wallets, ledger_entries, transactions, payments, assessments, det>>
    /\ UNCHANGED <<users, verification_documents, admin_audit_logs, issued, now>>

\* Variant of create_audit_log that stores nothing.
create_audit_log_Silent(logs, admin_id, admin_email, action, target_type, target_id) ==
    logs

\* create_audit_log: adds one AdminAuditLog row. Its db.commit() is the commit
\* that stores the calling handler's pending changes with the row; when it
\* raises, the helper logs the error and rolls the session back, which
\* discards those pending changes as well, and the handler carries on.
create_audit_log(logs, admin_id, admin_email, action, target_type, target_id) ==
    Append(logs, AdminAuditLog(admin_id, admin_email, action, target_type, target_id))

\* suspend_user / activate_user: is_active of the target is set, then
\* create_audit_log runs and the handler commits. log_commit is whether the
\* commit inside create_audit_log succeeds; the handler answers its success
\* message either way.
SetActiveByAdmin(op, action, message, token, user_id, value, log_commit) ==
    LET gate == AdminGate(token)
        target == UserById(user_id)
    IN
    /\ Len(admin_audit_logs) < MaxAuditLogs
    /\ IF gate.code # 200
       THEN /\ response' = AnswerTo(token, op, gate.code, gate.detail, gate.user_id, user_id)
            /\ UNCHANGED <<users, admin_audit_logs>>
       ELSE IF target = NoValue
       THEN /\ response' = AnswerTo(token, op, 404, "User not found", gate.user_id, user_id)
            /\ UNCHANGED <<users, admin_audit_logs>>
       ELSE /\ IF log_commit
               THEN /\ users' = [users EXCEPT ![target].is_active = value]
                    /\ admin_audit_logs' =
                           create_audit_log(admin_audit_logs, gate.user_id,
                               users[gate.user_id].email, action, "user", user_id)
               ELSE UNCHANGED <<users, admin_audit_logs>>
            /\ response' = AnswerTo(token, op, 200, message, gate.user_id, user_id)
    /\ UNCHANGED <<wallets, ledger_entries, transactions, payments, assessments, det>>
    /\ UNCHANGED <<verification_documents, issued, now>>

suspend_user(token, user_id, log_commit) ==
    SetActiveByAdmin("suspend_user", "SUSPEND_USER", "User suspended successfully",
                     token, user_id, FALSE, log_commit)

activate_user(token, user_id, log_commit) ==
    SetActiveByAdmin("activate_user", "ACTIVATE_USER", "User activated successfully",
                     token, user_id, TRUE, log_commit)

\* all(doc.status == APPROVED for doc in user_docs) and len(user_docs) > 0
AllApproved(tbl, user_id, approved) ==
    /\ DocumentsOf(tbl, user_id) # {}
    /\ \A k \in DocumentsOf(tbl, user_id) : tbl[k].status = approved

\* approve_kyc: after the gate and the lookup of the document the handler
\* evaluates VerificationStatus.APPROVED. The enum has no such member, so the
\* AttributeError is caught by "except Exception" and answered with a 500
\* before anything is changed. The remaining steps are what the handler
\* would do were the member defined.
approve_kyc(token, document_id, log_commit) ==
    LET gate == AdminGate(token)
        found == DocumentById(verification_documents, document_id)
    IN
    /\ Len(admin_audit_logs) < MaxAuditLogs
    /\ IF gate.code # 200
       THEN /\ response' = AnswerTo(token, "approve_kyc", gate.code, gate.detail, gate.user_id, document_id)
            /\ UNCHANGED <<users, verification_documents, admin_audit_logs>>
       ELSE IF found = {}
       THEN /\ response' = AnswerTo(token, "approve_kyc", 404, "Document not found", gate.user_id, document_id)
            /\ UNCHANGED <<users, verification_documents, admin_audit_logs>>
       ELSE IF "APPROVED" \notin DOMAIN VerificationStatus
       THEN /\ response' = AnswerTo(token, "approve_kyc", 500, "Failed to approve KYC document", gate.user_id, document_id)
            /\ UNCHANGED <<users, verification_documents, admin_audit_logs>>
       ELSE LET k == CHOOSE j \in found : TRUE
                owner == verification_documents[k].user_id
                docs == [verification_documents EXCEPT
                            ![k].status = VerificationStatus["APPROVED"],
                            ![k].reviewed_at = now,
                            ![k].reviewed_by = gate.user_id]
            IN  /\ IF log_commit
                   THEN /\ verification_documents' = docs
                        /\ users' =
                               IF UserById(owner) = NoValue THEN users
                               ELSE IF AllApproved(docs, owner, VerificationStatus["APPROVED"])
                               THEN [users EXCEPT ![owner].kyc_status = "VERIFIED",
                                                  ![owner].is_verified = TRUE]
                               ELSE [users EXCEPT ![owner].kyc_status = "IN_PROGRESS"]
                        /\ admin_audit_logs' =
                               create_audit_log(admin_audit_logs, gate.user_id,
                                   users[gate.user_id].email, "APPROVE_KYC",
                                   "kyc_document", document_id)
                   ELSE UNCHANGED <<users, verification_documents, admin_audit_logs>>
                /\ response' = AnswerTo(token, "approve_kyc", 200, "KYC document approved successfully", gate.user_id, document_id)
    /\ UNCHANGED <<wallets, ledger_entries, transactions, payments, assessments, det>>
    /\ UNCHANGED <<issued, now>>

\* reject_kyc: marks the document rejected with reviewer, time and reason and
\* sets the owner's kyc_status to REJECTED, then logs and commits as above.
reject_kyc(token, document_id, reason, log_commit) ==
    LET gate == AdminGate(token)
        found == DocumentById(verification_documents, document_id)
    IN
    /\ Len(admin_audit_logs) < MaxAuditLogs
    /\ IF gate.code # 200
       THEN /\ response' = AnswerTo(token, "reject_kyc", gate.code, gate.detail, gate.user_id, document_id)
            /\ UNCHANGED <<users, verification_documents, admin_audit_logs>>
       ELSE IF found = {}
       THEN /\ response' = AnswerTo(token, "reject_kyc", 404, "Document not found", gate.user_id, document_id)
            /\ UNCHANGED <<users, verification_documents, admin_audit_logs>>
       ELSE LET k == CHOOSE j \in found : TRUE
                owner == verification_documents[k].user_id
            IN  /\ IF log_commit
                   THEN /\ verification_documents' =
                               [verification_documents EXCEPT
                                   ![k].status = VerificationStatus.REJECTED,
                                   ![k].reviewed_at = now,
                                   ![k].reviewed_by = gate.user_id,
                                   ![k].rejection_reason = reason]
                        /\ users' =
                               IF UserById(owner) = NoValue THEN users
                               ELSE [users EXCEPT ![owner].kyc_status = "REJECTED"]
                        /\ admin_audit_logs' =
                               create_audit_log(admin_audit_logs, gate.user_id,
                                   users[gate.user_id].email, "REJECT_KYC",
                                   "kyc_document", document_id)
                   ELSE UNCHANGED <<users, verification_documents, admin_audit_logs>>
                /\ response' = AnswerTo(token, "reject_kyc", 200, "KYC document rejected", gate.user_id, document_id)
    /\ UNCHANGED <<wallets, ledger_entries, transactions, payments, assessments, det>>
    /\ UNCHANGED <<issued, now>>

(***************************************************************************)
(* api_gateway/main.py: password reset                                     *)
(***************************************************************************)
\* secrets.token_urlsafe(32): a string never generated before. The strings
\* generated so far are kept in issued, tagged "reset".
ResetTokenOrder == <<"r1", "r2", "r3">>

ResetToken(value) == [sub |-> value, type |-> "reset"]

FreeResetTokens == FirstFree(ResetTokenOrder, {t.sub : t \in {i \in issued : i.type = "reset"}})

\* The user holding a reset token: first() of the rows with that reset_token.
UserByResetToken(token) ==
    FirstUser({id \in ExistingIds : users[id].reset_token = token})

\* forgot_password: always the same answer. For a user with a password a new
\* token replaces the stored one, valid for one hour.
forgot_password(email) ==
    LET id == UserByEmail(email) IN
    /\ IF id = NoValue \/ users[id].password_hash = NoHash
       THEN UNCHANGED <<users, issued>>
       ELSE \E reset_token \in FreeResetTokens :
              /\ users' = [users EXCEPT
                     ![id].reset_token = reset_token,
                     ![id].reset_token_expires = now + ResetTokenHours]
              /\ issued' = issued \cup {ResetToken(reset_token)}
    /\ response' = Answer("forgot_password", 200,
                          "If the email exists, a password reset link has been sent.",
                          id, NoValue)
    /\ UNCHANGED <<wallets, ledger_entries, transactions, payments, assessments, det>>
    /\ UNCHANGED <<verification_documents, admin_audit_logs, now>>

\* Variant of reset_password that leaves the token stored after a reset.
reset_password_KeepsToken(token, new_password) ==
    LET id == UserByResetToken(token) IN
    /\ IF id = NoValue
       THEN /\ response' = Answer("reset_password", 400, "Invalid or expired reset token", NoValue, token)
            /\ UNCHANGED users
       ELSE IF users[id].reset_token_expires = NoTime
               \/ users[id].reset_token_expires < now
       THEN /\ users' = [users EXCEPT ![id].reset_token = NoValue,
                                      ![id].reset_token_expires = NoTime]
            /\ response' = Answer("reset_password", 400, "Reset token has expired", id, token)
       ELSE /\ users' = [users EXCEPT
                   ![id].password_hash = get_password_hash(new_password)]
            /\ response' = Answer("reset_password", 200, "Password has been reset successfully", id, token)
    /\ UNCHANGED <<wallets, ledger_entries, transactions, payments, assessments, det>>
    /\ UNCHANGED <<verification_documents, admin_audit_logs, issued, now>>

\* reset_password: 400 for a token no user holds; a token past its expiry is
\* cleared and answered 400; otherwise the password is replaced and the
\* token cleared.
reset_password(token, new_password) ==
    LET id == UserByResetToken(token) IN
    /\ IF id = NoValue
       THEN /\ response' = Answer("reset_password", 400, "Invalid or expired reset token", NoValue, token)
            /\ UNCHANGED users
       ELSE IF users[id].reset_token_expires = NoTime
               \/ users[id].reset_token_expires < now
       THEN /\ users' = [users EXCEPT ![id].reset_token = NoValue,
                                      ![id].reset_token_expires = NoTime]
            /\ response' = Answer("reset_password", 400, "Reset token has expired", id, token)
       ELSE /\ users' = [users EXCEPT
                   ![id].password_hash = get_password_hash(new_password),
                   ![id].reset_token = NoValue,
                   ![id].reset_token_expires = NoTime]
            /\ response' = Answer("reset_password", 200, "Password has been reset successfully", id, token)
    /\ UNCHANGED <<wallets, ledger_entries, transactions, payments, assessments, det>>
    /\ UNCHANGED <<verification_documents, admin_audit_logs, issued, now>>

\* An hour passes.
Tick ==
    /\ now < MaxTime
    /\ now' = now + 1
    /\ UNCHANGED <<wallets, ledger_entries, transactions, payments, assessments, det>>
    /\ UNCHANGED <<users, verification_documents, admin_audit_logs, issued, response>>

\* The tables as stored: one NGN wallet per user. Registration inserts a
\* wallet at 0.00; the other balances are funded wallets, the starting point
\* of the transfer scenarios. No ledger entry or transaction row exists.
Init ==
    /\ wallets \in {<<WalletRow("w1", "u1", b1), WalletRow("w2", "u2", b2)>> :
                        b1 \in SeedBalances, b2 \in SeedBalances}
    /\ ledger_entries = <<>>
    /\ transactions = <<>>
    /\ payments = <<>>
    /\ assessments = <<>>
    /\ GatewayEmpty
    /\ det = NoTransaction

Next ==
    \E u \in Users, r \in Users, a \in PaymentAmounts, c \in PaymentCurrencies :
        p2p_transfer(u, r, a, c)

Spec == Init /\ [][Next]_vars

\* The three money handlers of the payments service, on two funded wallets.
Institutions == {"inst1"}

InitPayments ==
    /\ wallets = <<WalletRow("w1", "u1", 300), WalletRow("w2", "u2", 300)>>
    /\ ledger_entries = <<>>
    /\ transactions = <<>>
    /\ payments = <<>>
    /\ assessments = <<>>
    /\ GatewayEmpty
    /\ det = NoTransaction

NextPayments ==
    \/ \E u \in Users, r \in Users, a \in PaymentAmounts, c \in PaymentCurrencies :
           p2p_transfer(u, r, a, c)
    \/ \E u \in Users, n \in BankAccountNumbers, a \in DecimalAmounts,
          c \in PaymentCurrencies :
           bank_transfer(u, n, a, c)
    \/ \E u \in Users, i \in Institutions, a \in DecimalAmounts,
          c \in PaymentCurrencies :
           pay_tuition(u, i, a, c)

SpecPayments == InitPayments /\ [][NextPayments]_vars

\* The gateway on an empty database.
InitGateway ==
    /\ wallets = <<>>
    /\ ledger_entries = <<>>
    /\ transactions = <<>>
    /\ payments = <<>>
    /\ assessments = <<>>
    /\ det = NoTransaction
    /\ GatewayEmpty

\* The ways a user row comes to exist: the two register handlers and the
\* first Google sign-in.
NextRegister ==
    \/ \E e \in RegisterEmails, ph \in Phones, cc \in CountryCodes, ok \in BOOLEAN :
           register(e, "pw1", ph, cc, ok)
    \/ \E e \in RegisterEmails, ph \in Phones, cc \in CountryCodes, ok \in BOOLEAN :
           auth_register(e, "pw1", ph, cc, ok)
    \/ \E g \in {a \in GoogleAnswers : a.sub # "g2" /\ a.email \in RegisterEmails \cup {NoValue}},
          ok \in BOOLEAN :
           google_oauth(g, ok)

SpecRegister == InitGateway /\ [][NextRegister]_vars

\* The gateway after u1 (an allowlisted email) and u2 have registered and
\* logged in and u2 has submitted one document.
SeededUsers ==
    [id \in UserIds |->
        IF id = "u1"
        THEN User("admin@bengo.com", "08011111111", get_password_hash("pw1"),
                  NoValue, NoValue, FALSE)
        ELSE IF id = "u2"
        THEN User("ann@mail.com", "12345", get_password_hash("pw1"),
                  NoValue, NoValue, FALSE)
        ELSE NoUser]

InitAdmin ==
    /\ wallets = <<DefaultWallet("w1", "u1"), DefaultWallet("w2", "u2")>>
    /\ ledger_entries = <<>>
    /\ transactions = <<>>
    /\ payments = <<>>
    /\ assessments = <<>>
    /\ det = NoTransaction
    /\ users = SeededUsers
    /\ verification_documents =
           <<VerificationDocument("d1", "u2", VerificationStatus.PENDING)>>
    /\ admin_audit_logs = <<>>
    /\ issued = {create_access_token("u1"), create_access_token("u2")}
    /\ response = NoResponse
    /\ now = 0

\* The admin handlers and the submission of documents.
\* A bearer token a client can present: one the gateway signed, or garbage.
Presentable == issued \cup {GarbageToken}

NextAdmin ==
    \/ \E t \in Presentable, id \in UserIds, ok \in BOOLEAN : suspend_user(t, id, ok)
    \/ \E t \in Presentable, id \in UserIds, ok \in BOOLEAN : activate_user(t, id, ok)
    \/ \E t \in Presentable, d \in DocumentIds, ok \in BOOLEAN : approve_kyc(t, d, ok)
    \/ \E t \in Presentable, d \in DocumentIds, ok \in BOOLEAN :
           reject_kyc(t, d, "blurred", ok)
    \/ \E t \in Presentable, has \in BOOLEAN : submit_verification(t, has)
    \/ \E t \in Presentable : get_all_users(t)

SpecAdmin == InitAdmin /\ [][NextAdmin]_vars

\* The gateway after u1 (admin) and u2 have registered and logged in: sign-in,
\* account settings and the suspension of u2.
InitSession ==
    /\ wallets = <<DefaultWallet("w1", "u1"), DefaultWallet("w2", "u2")>>
    /\ ledger_entries = <<>>
    /\ transactions = <<>>
    /\ payments = <<>>
    /\ assessments = <<>>
    /\ det = NoTransaction
    /\ users = SeededUsers
    /\ verification_documents = <<>>
    /\ admin_audit_logs = <<>>
    /\ issued = {create_access_token("u1")} \cup TokensFor("u2")
    /\ response = NoResponse
    /\ now = 0

SessionGoogleAnswers ==
    {g \in GoogleAnswers : g.status # 200 \/ (g.sub = "g1" /\ g.email = "ann@mail.com")}

\* Sign-in and the suspension of u2.
NextSession ==
    \/ \E pw \in Passwords : login("ann@mail.com", pw)
    \/ \E t \in Presentable : refresh_token(t)
    \/ \E g \in SessionGoogleAnswers : google_oauth(g, TRUE)
    \/ \E t \in Presentable : change_password(t, "pw1", "pw2")
    \/ \E t \in Presentable : suspend_user(t, "u2", TRUE)
    \/ \E t \in Presentable : activate_user(t, "u2", TRUE)

SpecSession == InitSession /\ [][NextSession]_vars

\* The handlers that take a bearer token, on the same database.
NextTokens ==
    \/ \E t \in Presentable : refresh_token(t)
    \/ \E t \in Presentable : get_current_user(t)
    \/ \E t \in Presentable : change_password(t, "pw1", "pw2")
    \/ \E t \in Presentable, pw \in Passwords :
           update_email(t, "emzzygee000@gmail.com", pw)
    \/ \E t \in Presentable : update_phone(t, "08022222222", "pw1")
    \/ \E t \in Presentable : submit_verification(t, TRUE)
    \/ \E t \in Presentable : suspend_user(t, "u2", TRUE)
    \/ \E t \in Presentable : get_all_users(t)

SpecTokens == InitSession /\ [][NextTokens]_vars

\* Password reset for u2, over time. A client presents a string the gateway
\* has generated, or one it made up.
ResetInputs == {t.sub : t \in {i \in issued : i.type = "reset"}} \cup {"guess"}

NextReset ==
    \/ \E e \in Emails : forgot_password(e)
    \/ \E t \in ResetInputs, pw \in Passwords : reset_password(t, pw)
    \/ Tick

SpecReset == InitSession /\ [][NextReset]_vars

\* The risk service on its own.
NextRisk ==
    \E u \in Users, t \in RiskTransactionTypes, a \in RiskAmounts :
        assess_transaction_risk(u, t, a)

SpecRisk == Init /\ [][NextRisk]_vars

\* The double-entry utility on its own: the candidate entry list is drawn
\* at the start and the constructor is applied to it.
InitLedger ==
    /\ wallets = <<WalletRow("w1", "u1", 0), WalletRow("w2", "u2", 0)>>
    /\ ledger_entries = <<>>
    /\ transactions = <<>>
    /\ payments = <<>>
    /\ assessments = <<>>
    /\ GatewayEmpty
    /\ det \in {[NoTransaction EXCEPT !.transaction_id = "t1", !.entries = e] :
                    e \in EntryLists}

NextLedger ==
    /\ det.outcome = "none"
    /\ DoubleEntryTransaction(det.transaction_id, det.entries)

SpecLedger == InitLedger /\ [][NextLedger]_vars

(***************************************************************************)
(* Properties of the payments service.                                     *)
(***************************************************************************)
Accepted(p) == p.response.http = 200

SamePayload(p, q) ==
    /\ p.op = q.op /\ p.user_id = q.user_id /\ p.recipient_id = q.recipient_id
    /\ p.amount = q.amount /\ p.currency = q.currency

\* Sender and recipient are different users that each hold a wallet in the
\* currency of the request.
BetweenWallets(p) ==
    /\ p.user_id # p.recipient_id
    /\ HasWallet(p.before, p.user_id, p.currency)
    /\ HasWallet(p.before, p.recipient_id, p.currency)

GroupsWithReference(ref) ==
    {ledger_entries[k].transaction_id :
        k \in {n \in 1..Len(ledger_entries) : ledger_entries[n].reference = ref}}

JournalReferences == {ledger_entries[k].reference : k \in 1..Len(ledger_entries)}

AcceptedDebits(u, a) ==
    {i \in 1..Len(payments) :
        /\ payments[i].op = "P2P" /\ Accepted(payments[i])
        /\ payments[i].user_id = u /\ payments[i].amount = a}

C8_InsufficientFundsFails ==
    \A i \in 1..Len(payments) :
        LET p == payments[i] IN
        (/\ validate_amount(p.amount).ok
         /\ HasWallet(p.before, p.user_id, p.currency)
         /\ p.amount > Available(p.before, p.user_id, p.currency))
        => /\ p.response.status = "FAILED"
           /\ p.response.detail = "InsufficientFunds"
           /\ ledger_entries = <<>>
           /\ Available(p.after, p.user_id, p.currency)
                  = Available(p.before, p.user_id, p.currency)

\* The statuses a request has carried, oldest first: the handler builds its
\* response once and no code changes a status afterwards.
StatusHistory(p) == IF Accepted(p) THEN <<p.response.status>> ELSE <<>>

LifecycleStates ==
    {"CREATED", "RISK_CHECKED", "RESERVED", "POSTED", "COMMITTED",
     "REJECTED", "FAILED", "CANCELLED", "REVERSED"}

LifecycleEdges ==
    {<<"CREATED", "RISK_CHECKED">>, <<"RISK_CHECKED", "RESERVED">>,
     <<"RESERVED", "POSTED">>, <<"POSTED", "COMMITTED">>,
     <<"CREATED", "REJECTED">>, <<"RISK_CHECKED", "FAILED">>,
     <<"RESERVED", "FAILED">>, <<"CREATED", "CANCELLED">>,
     <<"RISK_CHECKED", "CANCELLED">>, <<"COMMITTED", "REVERSED">>}

InHistory(h, s) == \E k \in 1..Len(h) : h[k] = s

\* C10: a request's status starts at CREATED and moves only along the edges of
\* the lifecycle; no request is COMMITTED without RISK_CHECKED and RESERVED.
C10_LifecycleFollowed ==
    \A i \in 1..Len(payments) :
        LET h == StatusHistory(payments[i]) IN
        /\ \A k \in 1..Len(h) : h[k] \in LifecycleStates
        /\ Len(h) > 0 => h[1] = "CREATED"
        /\ \A k \in 1..(Len(h) - 1) : <<h[k], h[k + 1]>> \in LifecycleEdges
        /\ InHistory(h, "COMMITTED")
               => InHistory(h, "RISK_CHECKED") /\ InHistory(h, "RESERVED")

(***************************************************************************)
(* Properties of the double-entry utility.                                 *)
(***************************************************************************)
RECURSIVE SumOfTypeIn(_, _, _)
SumOfTypeIn(entries, t, c) ==
    IF entries = <<>> THEN 0
    ELSE (IF Head(entries).transaction_type = t /\ Head(entries).currency = c
          THEN Head(entries).amount ELSE 0)
         + SumOfTypeIn(Tail(entries), t, c)

BalancedPerCurrency(entries) ==
    \A c \in LedgerCurrencies :
        SumOfTypeIn(entries, "DEBIT", c) = SumOfTypeIn(entries, "CREDIT", c)

\* C1: every admitted posting group balances per currency: for each currency
\* the DEBIT amounts sum to the CREDIT amounts.
C1_AdmittedBalancesPerCurrency ==
    det.outcome = "constructed" => BalancedPerCurrency(det.entries)

(***************************************************************************)
(* Properties of the risk service.                                         *)
(***************************************************************************)
BandLevel(score) ==
    CASE score < 30 -> "LOW"
      [] score >= 30 /\ score < 60 -> "MEDIUM"
      [] score >= 60 /\ score < 80 -> "HIGH"
      [] score >= 80 -> "CRITICAL"

FollowsBands(score, r) ==
    /\ r.risk_level = BandLevel(score)
    /\ r.approved = (r.risk_level \in {"LOW", "MEDIUM"})
    /\ (r.risk_level = "LOW" => ~r.requires_verification)
    /\ (r.risk_level = "MEDIUM" => r.requires_verification)

\* C9: the decision follows the score by the fixed bands (<30 LOW, <60 MEDIUM,
\* <80 HIGH, else CRITICAL), approved exactly for LOW and MEDIUM, verification
\* required for MEDIUM and not for LOW, and every computed score is in 0..100.
C9_DecisionFollowsBands ==
    /\ \A i \in 1..Len(assessments) :
           LET r == assessments[i].response IN
           /\ r.risk_score \in 0..100
           /\ FollowsBands(r.risk_score, r)
    /\ \A score \in 0..100 : FollowsBands(score, RiskDecision(score))

\* A LOW and a MEDIUM assessment have both been answered.
C9_Witness ==
    /\ \E i \in 1..Len(assessments) :
           /\ assessments[i].response.risk_level = "LOW"
           /\ ~assessments[i].response.requires_verification
    /\ \E i \in 1..Len(assessments) :
           /\ assessments[i].response.risk_level = "MEDIUM"
           /\ assessments[i].response.risk_score = 30
           /\ assessments[i].response.approved

(***************************************************************************)
(* Properties settled for the request lifecycle and the validator.         *)
(***************************************************************************)
TerminalStatuses == {"COMMITTED", "COMPLETED", "REJECTED", "FAILED", "CANCELLED"}

\* C15: every submit returns a definite result: a well-formed request is
\* answered with one of the terminal statuses COMMITTED (COMPLETED in the
\* payments service's vocabulary), REJECTED, FAILED or CANCELLED, never while
\* it is still in a non-terminal state.
C15_SubmitReturnsTerminalStatus ==
    \A i \in 1..Len(payments) :
        validate_amount(payments[i].amount).ok
            => /\ Accepted(payments[i])
               /\ payments[i].response.status \in TerminalStatuses

\* The account a posting names is a row of wallets that is not closed.
AccountOpen(tbl, account_id) ==
    \E k \in 1..Len(tbl) : tbl[k].id = account_id /\ tbl[k].status # "CLOSED"

\* C20: no posting group is constructed that holds a posting with a zero or
\* negative amount, that has fewer than 2 postings, or that names an account
\* that does not exist or is closed.
C20_ValidatorRejectsMalformedGroups ==
    det.outcome = "constructed"
        => /\ Len(det.entries) >= 2
           /\ \A k \in 1..Len(det.entries) : det.entries[k].amount > 0
           /\ \A k \in 1..Len(det.entries) :
                  AccountOpen(wallets, det.entries[k].account_id)

RequestAmount(p) ==
    IF p.op = "P2P" THEN [whole |-> p.amount, tail |-> 0] ELSE p.amount

\* min_transaction_amount <= d <= max_transaction_amount on the Decimal value.
WithinLimits(d) ==
    /\ ~(d.whole < min_transaction_amount
            \/ (d.whole = min_transaction_amount /\ d.tail < 0))
    /\ ~(d.whole > max_transaction_amount
            \/ (d.whole = max_transaction_amount /\ d.tail > 0))

TenDigits(account_number) ==
    /\ Len(account_number) = 10
    /\ \A k \in 1..Len(account_number) : account_number[k] \in Digits

\* C22: a P2P, bank-transfer or tuition request is accepted exactly when its
\* amount lies within [min_transaction_amount, max_transaction_amount] (and,
\* for a bank transfer, the account number is exactly 10 digits); any other
\* request is answered with a 400 and leaves every table unchanged.
C22_AcceptedExactlyWhenWellFormed ==
    \A i \in 1..Len(payments) :
        LET p == payments[i]
            wellFormed ==
                /\ WithinLimits(RequestAmount(p))
                /\ p.op = "BANK_TRANSFER" => TenDigits(p.account_number)
        IN  /\ Accepted(p) <=> wellFormed
            /\ ~wellFormed => p.response.http = 400 /\ p.before = p.after

(***************************************************************************)
(* Properties settled for the API gateway.                                 *)
(***************************************************************************)
\* C21: there is at most one wallet per (owner, currency); every user that
\* exists has exactly one NGN wallet, with balance 0.00 and pending_balance
\* 0.00 as created, and no user exists without it.
C21_EveryUserHasOneZeroWallet ==
    /\ \A id \in UserIds, c \in {"NGN", "USD"} :
           Cardinality(WalletsOf(wallets, id, c)) <= 1
    /\ \A id \in ExistingIds :
           /\ Cardinality(WalletsOf(wallets, id, "NGN")) = 1
           /\ \A k \in WalletsOf(wallets, id, "NGN") :
                  wallets[k].balance = 0 /\ wallets[k].pending_balance = 0

\* The audit action each admin handler records.
AuditActions ==
    [suspend_user |-> "SUSPEND_USER", activate_user |-> "ACTIVATE_USER",
     approve_kyc |-> "APPROVE_KYC", reject_kyc |-> "REJECT_KYC"]

\* The latest audit record names the admin, the action and the target of the
\* request just answered.
LastRecordMatches(logs, resp) ==
    LET rec == logs[Len(logs)] IN
    /\ resp.op \in DOMAIN AuditActions
    /\ resp.code = 200
    /\ rec.action = AuditActions[resp.op]
    /\ rec.admin_id = resp.caller
    /\ rec.admin_email = users[resp.caller].email
    /\ rec.admin_email \in AdminEmails
    /\ rec.target_id = resp.target

C23_AuditStep ==
    LET n == Len(admin_audit_logs) IN
    /\ Len(admin_audit_logs') \in {n, n + 1}
    /\ SubSeq(admin_audit_logs', 1, n) = admin_audit_logs
    /\ Len(admin_audit_logs') = n + 1 => LastRecordMatches(admin_audit_logs', response')
    /\ (/\ response'.op \in DOMAIN AuditActions
        /\ \/ users' # users
           \/ verification_documents' # verification_documents)
           => Len(admin_audit_logs') = n + 1

\* C23: the audit log is append-only and complete. Every step keeps the
\* records already stored, unchanged and in place; an admin handler (suspend,
\* activate, approve, reject) that changes a user or a document appends
\* exactly one record, carrying the acting admin, the action and the target;
\* nothing else appends.
C23_AuditLogAppendOnlyAndComplete == [][C23_AuditStep]_vars

\* A suspension and a rejection have taken effect and both are on record.
C23_Witness ==
    /\ Len(admin_audit_logs) = 2
    /\ \E k \in 1..2 : /\ admin_audit_logs[k].action = "SUSPEND_USER"
                       /\ ~users[admin_audit_logs[k].target_id].is_active
    /\ \E k \in 1..2 : /\ admin_audit_logs[k].action = "REJECT_KYC"
                       /\ verification_documents[1].status = VerificationStatus.REJECTED

\* The audit record the handler op writes for the request just answered.
RecordOf(resp) ==
    AdminAuditLog(resp.caller, users[resp.caller].email, AuditActions[resp.op],
                  "user", resp.target)

OnRecord(resp) ==
    \E k \in 1..Len(admin_audit_logs) : admin_audit_logs[k] = RecordOf(resp)

\* C25: when suspend_user (activate_user) answers with its success message,
\* the target's stored is_active is false (true) and the matching audit
\* record is stored, also when the commit inside create_audit_log failed.
C25_SuccessMeansStored ==
    /\ (response.op = "suspend_user" /\ response.code = 200)
           => ~users[response.target].is_active /\ OnRecord(response)
    /\ (response.op = "activate_user" /\ response.code = 200)
           => users[response.target].is_active /\ OnRecord(response)

\* C29: approve_kyc by an admin on an existing document answers 200 and marks
\* the document approved with reviewer and review time; the owner becomes
\* VERIFIED with is_verified exactly when all of the owner's documents are
\* then approved, IN_PROGRESS otherwise; and a VERIFIED user has at least one
\* document and none pending or rejected.
C29_ApproveMarksApproved ==
    /\ (response.op = "approve_kyc" /\ response.code \notin {401, 403, 404})
           => /\ response.code = 200
              /\ \A k \in DocumentById(verification_documents, response.target) :
                    LET doc == verification_documents[k]
                        docsOk == \A j \in DocumentsOf(verification_documents, doc.user_id) :
                                      verification_documents[j].status \notin
                                          {VerificationStatus.PENDING,
                                           VerificationStatus.REJECTED}
                    IN  /\ doc.status \notin {VerificationStatus.PENDING,
                                              VerificationStatus.REJECTED}
                        /\ doc.reviewed_by = response.caller
                        /\ doc.reviewed_at # NoTime
                        /\ users[doc.user_id].kyc_status =
                               IF docsOk THEN "VERIFIED" ELSE "IN_PROGRESS"
                        /\ docsOk => users[doc.user_id].is_verified
    /\ \A id \in ExistingIds :
           users[id].kyc_status = "VERIFIED"
               => /\ DocumentsOf(verification_documents, id) # {}
                  /\ \A j \in DocumentsOf(verification_documents, id) :
                         verification_documents[j].status \notin
                             {VerificationStatus.PENDING, VerificationStatus.REJECTED}

\* The handlers that issue tokens, and those that write for their caller.
SignInOps == {"login", "refresh_token", "google_oauth"}

WritingOps ==
    {"change_password", "update_email", "update_phone", "submit_verification",
     "suspend_user", "activate_user", "approve_kyc", "reject_kyc"}

GatewayTables == <<users, wallets, verification_documents, admin_audit_logs>>

C26_Step ==
    /\ (response'.op \in SignInOps /\ response'.code = 200)
           => users'[response'.caller].is_active
    /\ (response'.op \in WritingOps /\ GatewayTables' # GatewayTables)
           => users[response'.caller].is_active

\* C26: while a user is suspended (is_active false) no sign-in handler (login,
\* token refresh, Google sign-in) issues tokens for that user, and no
\* authenticated request made for that user changes a table.
C26_SuspendedUserLockedOut == [][C26_Step]_vars

\* The handlers that get_current_user_id or their own check protects.
AccessTokenOps ==
    {"get_current_user", "change_password", "update_email", "update_phone",
     "submit_verification", "suspend_user", "activate_user", "approve_kyc",
     "reject_kyc", "get_all_users"}

C27_Step ==
    /\ response'.op = "refresh_token"
           => (response'.code = 200 <=> response'.token.type = "refresh")
    /\ (response'.op = "refresh_token" /\ response'.token.type = "access")
           => response'.code = 401 /\ issued' = issued
    /\ (response'.op \in AccessTokenOps /\ response'.token.type # "access")
           => /\ response'.code = 401
              /\ GatewayTables' = GatewayTables
              /\ issued' = issued

\* C27: token types are kept apart. The refresh endpoint accepts a refresh
\* token and refuses an access token; every other authenticated handler
\* answers 401 and changes nothing when the token's type is not "access".
C27_TokenTypesKeptApart == [][C27_Step]_vars

AdminOps ==
    {"suspend_user", "activate_user", "approve_kyc", "reject_kyc", "get_all_users"}

C30_Step ==
    /\ (response'.op \in AdminOps /\ response'.code = 200)
           => users[response'.caller].email \in AdminEmails
    /\ (response'.op \in AdminOps /\ response'.caller # NoValue
            /\ users[response'.caller].email \notin AdminEmails)
           => response'.code = 403 /\ GatewayTables' = GatewayTables
    /\ (response'.op \in AdminOps /\ response'.code = 200)
           => SeededUsers[response'.caller].email \in AdminEmails

\* C30: an admin handler takes effect only for a caller whose email is in the
\* allowlist; any other caller gets 403 and no table changes; and a user who
\* registered with an email outside the allowlist never performs an admin
\* action, whatever requests that user makes before.
C30_AdminOnlyByAllowlist == [][C30_Step]_vars

\* The users that hold reset token t in the table tbl.
Holders(tbl, t) == {id \in UserIds : tbl[id].exists /\ tbl[id].reset_token = t}

\* The reset tokens generated so far.
Generated == {t.sub : t \in {i \in issued : i.type = "reset"}}

PasswordsOf(tbl) == [id \in UserIds |-> tbl[id].password_hash]

C28_Step ==
    LET t == response'.target IN
    /\ (response'.op = "reset_password" /\ response' # response) =>
          /\ response'.code \in {200, 400}
          /\ response'.code = 200 =>
                \E id \in Holders(users, t) :
                    /\ now <= users[id].reset_token_expires
                    /\ users[id].reset_token_expires <= now + ResetTokenHours
                    /\ users'[id].reset_token = NoValue
                    /\ users'[id].reset_token_expires = NoTime
          /\ (\E id \in Holders(users, t) : users[id].reset_token_expires < now)
                => response'.code = 400
          /\ response'.code = 400 => PasswordsOf(users') = PasswordsOf(users)
          /\ Holders(users', t) = {}
    /\ \A id \in ExistingIds :
          (users[id].reset_token # NoValue
              /\ users'[id].reset_token # users[id].reset_token)
                  => Holders(users', users[id].reset_token) = {}
    /\ \A g \in Generated : Holders(users, g) = {} => Holders(users', g) = {}

====
